---- MODULE Spec2Model ----
(***************************************************************************)
(* A model of the cloudWise backend: the provider clients                  *)
(* (app/cloud_providers/aws_client.py, azure_client.py), the dispatcher of *)
(* app/api/routes.py (process_query, execute_cloud_command) and the        *)
(* dispatcher of app/api/routes/query.py (process_query).                  *)
(*                                                                         *)
(* A provider call is an external event: each gateway operation is given   *)
(* the outcome of its underlying provider call (a "world") and the model   *)
(* computes what the operation does with it, as the source does.           *)
(*                                                                         *)
(* The sections that follow one operation in detail (the start-up, two     *)
(* calls in flight, list_s3_buckets, the VM operations, the text parser)   *)
(* say in their heading what the variables hold there.                     *)
(***************************************************************************)
EXTENDS Integers, Sequences, FiniteSets, TLC

VARIABLES
    pc,            \* "boot" | "idle" | "done": where the process is
    aws_client,    \* routes.py global: TRUE when the AWS client was constructed
    azure_client,  \* routes.py global: TRUE when the Azure client was constructed
    llm_service,   \* routes.py global: TRUE when the LLM service was constructed
    request,       \* the body of the last request (NoRequest if none)
    command,       \* the Structured Command of the last request (NoCommand if none)
    calls,         \* the gateway operations invoked by the last request, in order
    llm_calls,     \* the LLM service methods invoked by the last request, in order
    response       \* what the last request gave its caller

vars == <<pc, aws_client, azure_client, llm_service, request, command, calls, llm_calls,
          response>>

(***************************************************************************)
(* Bounds of the model.                                                    *)
(***************************************************************************)
\* the longest resources list of a command
MaxRes == 2
\* the most gateway operations invoked directly, one after the other (SpecGateway)
MaxGwCalls == 2

(***************************************************************************)
(* Python values, as far as the handlers look at them.                     *)
(*   shape  "mapping"  a plain dict (region -> records, or a cost record)  *)
(*          "envelope" a dict {status, message, data, ...}                 *)
(*          "list"     a list                                              *)
(*          "None"     None                                                *)
(*   status the envelope's "status" ("" when the value has none)           *)
(*   n      len() of the value (0 for None)                                *)
(***************************************************************************)
Mapping(n) == [shape |-> "mapping", status |-> "", n |-> n]
Envelope(s) == [shape |-> "envelope", status |-> s, n |-> 3]
PyList(n) == [shape |-> "list", status |-> "", n |-> n]
PyNone == [shape |-> "None", status |-> "", n |-> 0]

\* Python's truth test of a value: `not data`
Falsy(v) == v.shape = "None" \/ v.n = 0

\* what a call gives its caller: a returned value or a raised exception
Return(v) == [raised |-> FALSE, msg |-> "", value |-> v]
Raise(m) == [raised |-> TRUE, msg |-> m, value |-> PyNone]

(***************************************************************************)
(* The outcome of the provider call under a gateway operation.             *)
(*   "data"          the provider answered with one or more records        *)
(*   "none"          the provider answered with no record                  *)
(*   "client_error"  the call raised the SDK's service error (botocore     *)
(*                   ClientError, an Azure error)                          *)
(*   "other_error"   the call raised any other exception (no connection)   *)
(*   "item_error"    the first call answered, the per-item calls (per      *)
(*                   region, per bucket, per account) raised ClientError   *)
(***************************************************************************)
World == {"data", "none", "client_error", "other_error", "item_error"}
Failed(w) == w \in {"client_error", "other_error", "item_error"}

(***************************************************************************)
(* AWSClient (aws_client.py).  Only ClientError is caught.                 *)
(***************************************************************************)
\* _get_all_regions: a ClientError is wrapped and raised again
get_all_regions(w) ==
    CASE w = "client_error" -> Raise("Error getting regions")
      [] w = "other_error" -> Raise("provider exception")
      [] OTHER -> Return(PyList(1))

\* list_ec2_instances: the region listing is outside any try; a region whose
\* describe_instances raises ClientError is printed and skipped
list_ec2_instances(w) ==
    IF get_all_regions(w).raised THEN get_all_regions(w)
    ELSE CASE w = "data" -> Return(Mapping(1))
           [] OTHER -> Return(Mapping(0))

\* list_s3_buckets: always the envelope, unless the exception is no ClientError
list_s3_buckets(w) ==
    CASE w = "client_error" -> Return(Envelope("error"))
      [] w = "other_error" -> Raise("provider exception")
      [] w = "none" -> Return(Envelope("empty"))
      [] w = "item_error" -> Return(Envelope("empty"))
      [] OTHER -> Return(Envelope("success"))

\* get_cost_and_usage: a ClientError is wrapped and raised again
get_cost_and_usage(w) ==
    CASE w = "client_error" -> Raise("Error getting cost and usage data")
      [] w = "other_error" -> Raise("provider exception")
      [] OTHER -> Return(Mapping(7))

\* get_cloudwatch_metrics: a ClientError is wrapped and raised again
get_cloudwatch_metrics(w) ==
    CASE w = "client_error" -> Raise("Error getting CloudWatch metrics")
      [] w = "other_error" -> Raise("provider exception")
      [] w = "data" -> Return(PyList(1))
      [] OTHER -> Return(PyList(0))

(***************************************************************************)
(* AzureClient (azure_client.py).  `except Exception` everywhere.          *)
(***************************************************************************)
\* get_vm_status: an exception becomes {'error': str(e)}
get_vm_status(w) ==
    CASE w \in {"client_error", "other_error"} -> Return(Mapping(1))
      [] OTHER -> Return(Mapping(4))

\* list_virtual_machines: the exception is logged and raised again; the
\* per-VM get_vm_status never raises
list_virtual_machines(w) ==
    CASE w = "client_error" -> Raise("provider error")
      [] w = "other_error" -> Raise("provider exception")
      [] w = "none" -> Return(Mapping(0))
      [] OTHER -> Return(Mapping(1))

\* list_storage_accounts: the envelope in every case
list_storage_accounts(w) ==
    CASE w \in {"client_error", "other_error"} -> Return(Envelope("error"))
      [] w = "none" -> Return(Envelope("empty"))
      [] w = "item_error" -> Return(Envelope("empty"))
      [] OTHER -> Return(Envelope("success"))

\* get_cost_analysis: the error and the empty envelope are returned inside the
\* try/except; the code that builds the success result sits after the
\* `return` of the except block, so with rows the function returns None
get_cost_analysis(w) ==
    CASE w \in {"client_error", "other_error"} -> Return(Envelope("error"))
      [] w = "none" -> Return(Envelope("empty"))
      [] OTHER -> Return(PyNone)

\* get_resource_metrics
get_resource_metrics(w) ==
    CASE w \in {"client_error", "other_error"} -> Return(Envelope("error"))
      [] w = "none" -> Return(Envelope("empty"))
      [] OTHER -> Return(Envelope("success"))

\* list_resource_groups (the second definition, which replaces the first)
list_resource_groups(w) ==
    CASE w \in {"client_error", "other_error"} -> Return(Envelope("error"))
      [] w = "none" -> Return(Envelope("empty"))
      [] OTHER -> Return(Envelope("success"))

\* start_vm / stop_vm / restart_vm: begin_*, poller.result(), get_vm_status
start_vm(w) ==
    IF w \in {"client_error", "other_error"} THEN Return(Envelope("error"))
    ELSE Return(Envelope("success"))

stop_vm(w) ==
    IF w \in {"client_error", "other_error"} THEN Return(Envelope("error"))
    ELSE Return(Envelope("success"))

restart_vm(w) ==
    IF w \in {"client_error", "other_error"} THEN Return(Envelope("error"))
    ELSE Return(Envelope("success"))

\* get_vm_metrics: a metric whose read fails is left out
get_vm_metrics(w) ==
    IF w \in {"client_error", "other_error"} THEN Return(Envelope("error"))
    ELSE Return(Envelope("success"))

AwsOps == {"list_ec2_instances", "list_s3_buckets", "get_cost_and_usage",
           "get_cloudwatch_metrics"}
AzureOps == {"list_virtual_machines", "get_vm_status", "list_storage_accounts",
             "get_cost_analysis", "get_resource_metrics", "list_resource_groups",
             "start_vm", "stop_vm", "restart_vm", "get_vm_metrics"}
GatewayOps == AwsOps \cup AzureOps

\* the worlds an operation can meet: "item_error" needs per-item calls
Worlds(op) ==
    IF op \in {"list_ec2_instances", "list_s3_buckets", "list_storage_accounts"}
    THEN World ELSE World \ {"item_error"}

\* the operation `op` of a gateway, run in world w
Gateway(op, w) ==
    CASE op = "list_ec2_instances" -> list_ec2_instances(w)
      [] op = "list_s3_buckets" -> list_s3_buckets(w)
      [] op = "get_cost_and_usage" -> get_cost_and_usage(w)
      [] op = "get_cloudwatch_metrics" -> get_cloudwatch_metrics(w)
      [] op = "list_virtual_machines" -> list_virtual_machines(w)
      [] op = "get_vm_status" -> get_vm_status(w)
      [] op = "list_storage_accounts" -> list_storage_accounts(w)
      [] op = "get_cost_analysis" -> get_cost_analysis(w)
      [] op = "get_resource_metrics" -> get_resource_metrics(w)
      [] op = "list_resource_groups" -> list_resource_groups(w)
      [] op = "start_vm" -> start_vm(w)
      [] op = "stop_vm" -> stop_vm(w)
      [] op = "restart_vm" -> restart_vm(w)
      [] OTHER -> get_vm_metrics(w)

PlatformOf(op) == IF op \in AwsOps THEN "AWS" ELSE "Azure"

\* one entry of `calls`: the operation, the resource token it was selected
\* for, an argument worth recording, the world it met and what it gave
Call(op, token, arg, w) ==
    [platform |-> PlatformOf(op), op |-> op, token |-> token, arg |-> arg,
     world |-> w, raised |-> Gateway(op, w).raised, msg |-> Gateway(op, w).msg,
     value |-> Gateway(op, w).value]

NoCommand == [platforms |-> {}, resources |-> <<>>, action |-> "", parameters |-> <<>>]
NoRequest == [start_date |-> "None", end_date |-> "None"]
NoResponse == [outcome |-> "none"]

(***************************************************************************)
(* Python dicts with string keys.                                          *)
(***************************************************************************)
EmptyMap == <<>>
Put(m, k, v) == (k :> v) @@ m
Get(m, k, default) == IF k \in DOMAIN m THEN m[k] ELSE default

(***************************************************************************)
(* str.lower() and the substring test `word in action.lower()`, on the     *)
(* action strings of the model.                                            *)
(***************************************************************************)
Lower(a) ==
    CASE a = "List" -> "list"
      [] a = "Get_Costs" -> "get_costs"
      [] OTHER -> a

Contains(s, word) ==
    \/ s = word
    \/ <<s, word>> \in {<<"vm_status", "status">>, <<"get_costs", "cost">>,
                        <<"get_metrics", "metrics">>, <<"get_metrics", "get_metrics">>}

(***************************************************************************)
(* app/api/routes.py                                                       *)
(***************************************************************************)
\* the commands the JSON interpreter can hand to execute_cloud_command
TokensA == {"VM", "Storage", "costs", "EC2", "S3", "ResourceGroup", "ec2"}
ActionsA == {"list", "List", "vm_status", "describe"}
ParamKeysA == {"resource_group", "vm_name", "timeframe"}
ParamValueA(k) ==
    CASE k = "resource_group" -> "rg1"
      [] k = "vm_name" -> "vm1"
      [] OTHER -> "LastWeek"
ParametersA == {[k \in D |-> ParamValueA(k)] : D \in SUBSET ParamKeysA}
SeqsUpTo(S, n) == UNION {[1..k -> S] : k \in 0..n}
CommandsA ==
    [platforms : SUBSET {"AWS", "Azure"}, resources : SeqsUpTo(TokensA, MaxRes),
     action : ActionsA, parameters : ParametersA]

\* `x in command['resources']`
InSeq(x, s) == \E i \in 1..Len(s) : s[i] = x

\* an entry of the results mapping
ErrorEntry(text, msg) == [kind |-> "error", text |-> text, msg |-> msg, value |-> PyNone]
ResultEntry(v) == [kind |-> "result", text |-> "", msg |-> "", value |-> v]

\* sum(len(x) for x in v.values()): needs a dict
SumLenRaises(v) == v.shape \notin {"mapping", "envelope"}
\* sum(sum(b['Size'] for b in buckets) for buckets in v.values()): the first
\* value of an envelope is its status string, and 's'['Size'] is a TypeError
SumFieldRaises(v) == SumLenRaises(v) \/ v.shape = "envelope"

\* the accumulation state of one execute_cloud_command call
Acc(responses, cs) == [responses |-> responses, calls |-> cs]
\* a step's outcome: the accumulation state, and the exception if one is raised
Ok(acc) == [acc |-> acc, raised |-> FALSE, msg |-> ""]
Exc(acc, m) == [acc |-> acc, raised |-> TRUE, msg |-> m]

\* a gateway call made for `token`, and then `after` (a key to store under and
\* whether the post-processing of the value raises)
Invoke(acc, op, token, arg, key, postRaises) ==
    { LET c == Call(op, token, arg, w)
          acc1 == Acc(acc.responses, Append(acc.calls, c))
      IN  IF c.raised THEN Exc(acc1, c.msg)
          ELSE IF postRaises[c.value.shape] THEN Exc(acc1, "TypeError")
          ELSE Ok(Acc(Put(acc.responses, key, ResultEntry(c.value)), acc1.calls))
      : w \in Worlds(op) }

Shapes == {"mapping", "envelope", "list", "None"}
NoPost == [s \in Shapes |-> FALSE]
SumLenPost == [s \in Shapes |-> SumLenRaises([shape |-> s])]
SumFieldPost == [s \in Shapes |-> SumFieldRaises([shape |-> s])]

\* lines 139-160: one iteration of the first Azure loop
AzureToken(cmd, r, acc) ==
    IF r = "VM" THEN
        IF Contains(Lower(cmd.action), "list")
        THEN Invoke(acc, "list_virtual_machines", r,
                    Get(cmd.parameters, "resource_group", "None"), "azure_vm", SumLenPost)
        ELSE {Ok(acc)}
    ELSE IF r = "Storage" THEN
        IF Contains(Lower(cmd.action), "list")
        THEN Invoke(acc, "list_storage_accounts", r, "", "azure_storage", SumLenPost)
        ELSE {Ok(acc)}
    ELSE IF r \in {"cost", "costs"} THEN
        Invoke(acc, "get_cost_analysis", r,
               Get(cmd.parameters, "timeframe", "LastMonth"), "azure_costs", NoPost)
    ELSE {Ok(acc)}

\* lines 171-195: one iteration of the AWS loop
AwsToken(cmd, r, acc) ==
    IF r = "EC2" THEN
        IF Contains(Lower(cmd.action), "list")
        THEN Invoke(acc, "list_ec2_instances", r,
                    Get(cmd.parameters, "filters", "None"), "aws_ec2", SumLenPost)
        ELSE {Ok(acc)}
    ELSE IF r = "S3" THEN
        IF Contains(Lower(cmd.action), "list")
        THEN Invoke(acc, "list_s3_buckets", r, "", "aws_s3", SumFieldPost)
        ELSE {Ok(acc)}
    ELSE IF r \in {"cost", "costs"} THEN
        Invoke(acc, "get_cost_and_usage", r, "last 30 days", "aws_costs", NoPost)
    ELSE {Ok(acc)}

\* the for loop over command['resources'], left at the first exception
RECURSIVE ResourceLoop(_, _, _, _)
ResourceLoop(platform, cmd, i, acc) ==
    IF i > Len(cmd.resources) THEN {Ok(acc)}
    ELSE UNION { IF o.raised THEN {o} ELSE ResourceLoop(platform, cmd, i + 1, o.acc)
                 : o \in IF platform = "Azure"
                         THEN AzureToken(cmd, cmd.resources[i], acc)
                         ELSE AwsToken(cmd, cmd.resources[i], acc) }

NotInitialized(platform) ==
    ErrorEntry(IF platform = "Azure"
               THEN "Azure client not initialized. Please check Azure credentials."
               ELSE "AWS client not initialized. Please check AWS credentials.", "")

\* lines 133-162 and 165-197: the try/except is around the whole loop
PlatformBlock(platform, client, errkey, errtext, cmd, acc) ==
    IF platform \notin cmd.platforms THEN {acc}
    ELSE IF ~client
    THEN {Acc(Put(acc.responses, errkey, NotInitialized(platform)), acc.calls)}
    ELSE { IF o.raised
           THEN Acc(Put(o.acc.responses, errkey, ErrorEntry(errtext, o.msg)), o.acc.calls)
           ELSE o.acc
           : o \in ResourceLoop(platform, cmd, 1, acc) }

\* lines 200-216: the second Azure block, inside no try of its own
AzureBlock2(cmd, acc) ==
    IF "Azure" \notin cmd.platforms THEN {Ok(acc)}
    ELSE IF ~azure_client
    THEN {Ok(Acc(Put(acc.responses, "azure_error", NotInitialized("Azure")), acc.calls))}
    ELSE IF InSeq("VM", cmd.resources) THEN
        IF Contains(Lower(cmd.action), "list")
        THEN Invoke(acc, "list_virtual_machines", "VM",
                    Get(cmd.parameters, "resource_group", "None"), "azure_vms", NoPost)
        ELSE IF Contains(Lower(cmd.action), "status") THEN
            IF "resource_group" \notin DOMAIN cmd.parameters
            THEN {Exc(acc, "KeyError: resource_group")}
            ELSE IF "vm_name" \notin DOMAIN cmd.parameters
            THEN {Exc(acc, "KeyError: vm_name")}
            ELSE Invoke(acc, "get_vm_status", "VM", cmd.parameters["vm_name"],
                        "azure_vm_status", NoPost)
        ELSE {Ok(acc)}
    ELSE IF InSeq("ResourceGroup", cmd.resources) THEN
        IF Contains(Lower(cmd.action), "list")
        THEN Invoke(acc, "list_resource_groups", "ResourceGroup", "", "azure_groups", NoPost)
        ELSE {Ok(acc)}
    ELSE {Ok(acc)}

AvailableServices ==
    [aws |-> aws_client, azure |-> azure_client, llm |-> llm_service]

\* what a handler of routes.py gives: a returned mapping or an HTTP error
ReturnedA(status, results, cs) ==
    [outcome |-> "returned", status |-> status, results |-> results, calls |-> cs,
     available_services |-> AvailableServices, detail |-> ""]
Http500A(cs, detail) ==
    [outcome |-> "http500", status |-> "", results |-> EmptyMap, calls |-> cs,
     available_services |-> AvailableServices, detail |-> detail]

\* lines 122-228
execute_cloud_command(cmd) ==
    UNION { UNION { { IF o.raised
                      THEN Http500A(o.acc.calls, o.msg)
                      ELSE ReturnedA("", o.acc.responses, o.acc.calls)
                      : o \in AzureBlock2(cmd, a2) }
                    : a2 \in PlatformBlock("AWS", aws_client, "aws_error",
                                           "Error executing AWS command", cmd, a1) }
            : a1 \in PlatformBlock("Azure", azure_client, "azure_error",
                                   "Error executing Azure command", cmd,
                                   Acc(EmptyMap, <<>>)) }

\* an interpreter that is told of both platforms whatever is configured
BothPlatforms == <<"AWS", "Azure">>

\* lines 110-112
AvailablePlatforms ==
    IF aws_client /\ azure_client THEN <<"AWS", "Azure">>
    ELSE IF aws_client THEN <<"AWS">>
    ELSE IF azure_client THEN <<"Azure">>
    ELSE <<>>

LlmCall(method, arg, raised) == [method |-> method, arg |-> arg, raised |-> raised]

\* what the completion request of the interpreter ends with: it fails, or the
\* model's answer is no JSON text, or it is the JSON text of a command
LlmAnswers == {"fails", "not_json", "json"}

\* an interpreter that gives up on an answer that is no JSON text
process_cloud_query_strict(answer) ==
    CASE answer = "json" -> {[raised |-> FALSE, command |-> cmd] : cmd \in CommandsA}
      [] OTHER -> {[raised |-> TRUE, command |-> NoCommand]}

\* LLMService.process_cloud_query of app/services/llm_service.py, lines 11-47:
\* the all-empty command for an answer json.loads cannot decode
process_cloud_query_json(answer) ==
    CASE answer = "fails" -> {[raised |-> TRUE, command |-> NoCommand]}
      [] answer = "not_json" -> {[raised |-> FALSE, command |-> NoCommand]}
      [] OTHER -> {[raised |-> FALSE, command |-> cmd] : cmd \in CommandsA}

\* a handler that dispatches whatever the interpreter left behind
AfterInterpretationAnyway(i) ==
    {[command |-> i.command, response |-> r] : r \in execute_cloud_command(i.command)}

\* process_query, lines 115-120: the command is executed; an exception of the
\* interpreter goes to the except of line 119
AfterInterpretation(i) ==
    IF i.raised
    THEN {[command |-> NoCommand, response |-> Http500A(<<>>, "Error getting LLM completion")]}
    ELSE {[command |-> i.command, response |-> r] : r \in execute_cloud_command(i.command)}

Init ==
    /\ pc = "boot"
    /\ aws_client = FALSE
    /\ azure_client = FALSE
    /\ llm_service = FALSE
    /\ request = NoRequest
    /\ command = NoCommand
    /\ calls = <<>>
    /\ llm_calls = <<>>
    /\ response = NoResponse

\* the configuration values init_services reads with os.getenv; an
\* environment is the set of the names that are set to a non-empty value
RequiredVars(service) ==
    CASE service = "aws" -> {"AWS_ACCESS_KEY_ID", "AWS_SECRET_ACCESS_KEY"}
      [] service = "azure" -> {"AZURE_SUBSCRIPTION_ID", "AZURE_TENANT_ID",
                               "AZURE_CLIENT_ID", "AZURE_CLIENT_SECRET"}
      [] OTHER -> {"OPENAI_API_KEY"}
Environs == SUBSET UNION {RequiredVars(service) : service \in {"aws", "azure", "llm"}}
\* which of the three constructors return (TRUE) and which raise
Constructors == [aws : BOOLEAN, azure : BOOLEAN, llm : BOOLEAN]

\* a start-up at which every constructor that is called returns
init_services_no_raise(environ, ctor) ==
    [aws |-> RequiredVars("aws") \subseteq environ, azure |-> RequiredVars("azure") \subseteq environ,
     llm |-> RequiredVars("llm") \subseteq environ]

\* init_services, lines 15-69: a client is constructed when its credentials
\* are all set and its constructor does not raise; it stays None otherwise
init_services(environ, ctor) ==
    [aws |-> RequiredVars("aws") \subseteq environ /\ ctor.aws,
     azure |-> RequiredVars("azure") \subseteq environ /\ ctor.azure,
     llm |-> RequiredVars("llm") \subseteq environ /\ ctor.llm]

InitServices ==
    /\ pc = "boot"
    /\ \E environ \in Environs, ctor \in Constructors :
          /\ aws_client' = init_services(environ, ctor).aws
          /\ azure_client' = init_services(environ, ctor).azure
          /\ llm_service' = init_services(environ, ctor).llm
    /\ pc' = "idle"
    /\ UNCHANGED <<request, command, calls, llm_calls, response>>

\* process_query, lines 92-120, for the answers the completion request can
\* end with
ProcessQueryWith(answers) ==
    /\ pc = "idle"
    /\ pc' = "done"
    /\ \/ /\ ~llm_service
          /\ response' = ReturnedA("error", EmptyMap, <<>>)
          /\ UNCHANGED <<command, calls, llm_calls>>
       \/ /\ llm_service
          /\ \E answer \in answers : \E i \in process_cloud_query_json(answer) :
                /\ llm_calls' = <<LlmCall("process_cloud_query", AvailablePlatforms,
                                          i.raised) @@ [answer |-> answer]>>
                /\ \E o \in AfterInterpretation(i) :
                      /\ command' = o.command
                      /\ calls' = o.response.calls
                      /\ response' = o.response
    /\ UNCHANGED <<aws_client, azure_client, llm_service, request>>

ProcessQueryA == ProcessQueryWith(LlmAnswers)

\* LLMService.analyze_error of app/services/llm_service.py, lines 115-142:
\* json.loads of the answer, whatever mapping it holds; no fallback
AnalysisKeys ==
    { {"explanation", "causes", "solutions", "prevention"},
      {"root_cause", "solutions", "best_practices"} }
analyze_error_json(answer) ==
    CASE answer = "json" ->
            {[raised |-> FALSE, value |-> [k \in keys |-> <<>>]] : keys \in AnalysisKeys}
      [] OTHER -> {[raised |-> TRUE, value |-> EmptyMap]}

\* analyze_error of routes.py, lines 230-242 (POST /analyze-error)
AnalyzeErrorA ==
    /\ pc = "idle"
    /\ pc' = "done"
    /\ \/ /\ ~llm_service
          /\ response' = Http500A(<<>>, "AttributeError")
          /\ UNCHANGED llm_calls
       \/ /\ llm_service
          /\ \E answer \in LlmAnswers : \E r \in analyze_error_json(answer) :
                /\ llm_calls' = <<LlmCall("analyze_error", <<>>, r.raised)
                                  @@ [answer |-> answer]>>
                /\ response' = IF r.raised
                               THEN Http500A(<<>>, "Error analyzing error")
                               ELSE ReturnedA("", r.value, <<>>)
    /\ UNCHANGED <<aws_client, azure_client, llm_service, request, command, calls>>

\* the request is over; the process waits for the next one
NextRequest ==
    /\ pc = "done"
    /\ pc' = "idle"
    /\ request' = NoRequest
    /\ command' = NoCommand
    /\ calls' = <<>>
    /\ llm_calls' = <<>>
    /\ response' = NoResponse
    /\ UNCHANGED <<aws_client, azure_client, llm_service>>

Next == InitServices \/ ProcessQueryA \/ AnalyzeErrorA \/ NextRequest

Spec == Init /\ [][Next]_vars

(***************************************************************************)
(* The start-up of routes.py looked at with its inputs: the environment    *)
(* and the constructors' outcomes are kept in `request`, and the requests  *)
(* that follow get no command from the model.                              *)
(***************************************************************************)
StartUp ==
    /\ pc = "boot"
    /\ \E environ \in Environs, ctor \in Constructors :
          /\ aws_client' = init_services(environ, ctor).aws
          /\ azure_client' = init_services(environ, ctor).azure
          /\ llm_service' = init_services(environ, ctor).llm
          /\ request' = [environ |-> environ, ctor |-> ctor]
    /\ pc' = "idle"
    /\ UNCHANGED <<command, calls, llm_calls, response>>

ProcessQueryStartUp == ProcessQueryWith({"fails", "not_json"})

NextStartUp == StartUp \/ ProcessQueryStartUp

SpecStartUp == Init /\ [][NextStartUp]_vars

(***************************************************************************)
(* Two calls of execute_cloud_command in flight at once.  Each call has    *)
(* its own frame: the command it was given and its local `responses`       *)
(* (line 124).  A call is followed block by block (first Azure block, AWS  *)
(* block, second Azure block and return), and the blocks of the two calls  *)
(* interleave in every order; the event loop, which suspends a coroutine   *)
(* at an await only, allows fewer orders than these.  Here pc, command,    *)
(* calls and response map a call to its position, command, frame and       *)
(* result.                                                                 *)
(***************************************************************************)
TwoCalls == {1, 2}

CommandsC ==
    [platforms : {{"AWS"}, {"Azure"}, {"AWS", "Azure"}}, resources : {<<"EC2">>, <<"VM">>},
     action : {"list"}, parameters : {EmptyMap}]

\* a module-level `responses` that every call writes to
StoreShared(frames, r, acc) == [q \in DOMAIN frames |-> acc]

\* `responses` is a local of the call: an assignment reaches the frame of
\* the call that makes it
Store(frames, r, acc) == [frames EXCEPT ![r] = acc]

InitConcurrent ==
    /\ pc = [r \in TwoCalls |-> "idle"]
    /\ aws_client \in BOOLEAN
    /\ azure_client \in BOOLEAN
    /\ llm_service = TRUE
    /\ request = NoRequest
    /\ command = [r \in TwoCalls |-> NoCommand]
    /\ calls = [r \in TwoCalls |-> Acc(EmptyMap, <<>>)]
    /\ llm_calls = <<>>
    /\ response = [r \in TwoCalls |-> NoResponse]

\* lines 122-129: the call starts with an empty `responses`
Begin(r) ==
    /\ pc[r] = "idle"
    /\ \E cmd \in CommandsC : command' = [command EXCEPT ![r] = cmd]
    /\ calls' = Store(calls, r, Acc(EmptyMap, <<>>))
    /\ pc' = [pc EXCEPT ![r] = "azure"]
    /\ UNCHANGED <<aws_client, azure_client, llm_service, request, llm_calls, response>>

\* lines 132-162
AzureStep(r) ==
    /\ pc[r] = "azure"
    /\ \E a \in PlatformBlock("Azure", azure_client, "azure_error",
                              "Error executing Azure command", command[r], calls[r]) :
          calls' = Store(calls, r, a)
    /\ pc' = [pc EXCEPT ![r] = "aws"]
    /\ UNCHANGED <<aws_client, azure_client, llm_service, request, command, llm_calls,
                   response>>

\* lines 165-197
AwsStep(r) ==
    /\ pc[r] = "aws"
    /\ \E a \in PlatformBlock("AWS", aws_client, "aws_error",
                              "Error executing AWS command", command[r], calls[r]) :
          calls' = Store(calls, r, a)
    /\ pc' = [pc EXCEPT ![r] = "azure2"]
    /\ UNCHANGED <<aws_client, azure_client, llm_service, request, command, llm_calls,
                   response>>

\* lines 200-228
ReturnStep(r) ==
    /\ pc[r] = "azure2"
    /\ \E o \in AzureBlock2(command[r], calls[r]) :
          /\ calls' = Store(calls, r, o.acc)
          /\ response' = [response EXCEPT ![r] =
                            IF o.raised THEN Http500A(o.acc.calls, o.msg)
                            ELSE ReturnedA("", o.acc.responses, o.acc.calls)]
    /\ pc' = [pc EXCEPT ![r] = "done"]
    /\ UNCHANGED <<aws_client, azure_client, llm_service, request, command, llm_calls>>

\* the call's result has been sent; the next request can come
Finish(r) ==
    /\ pc[r] = "done"
    /\ pc' = [pc EXCEPT ![r] = "idle"]
    /\ command' = [command EXCEPT ![r] = NoCommand]
    /\ response' = [response EXCEPT ![r] = NoResponse]
    /\ UNCHANGED <<aws_client, azure_client, llm_service, request, calls, llm_calls>>

NextConcurrent ==
    \E r \in TwoCalls : Begin(r) \/ AzureStep(r) \/ AwsStep(r) \/ ReturnStep(r) \/ Finish(r)

SpecConcurrent == InitConcurrent /\ [][NextConcurrent]_vars

(***************************************************************************)
(* app/api/routes/query.py                                                 *)
(***************************************************************************)
\* A parameter value of the text interpreter: a scalar string (items holds
\* it alone) or a list of strings.
Scalar(x) == [list |-> FALSE, items |-> <<x>>]
ListOf(xs) == [list |-> TRUE, items |-> xs]

\* str.strip() and str.strip('"') on the strings of the model
Strip(x) == IF x = " " THEN "" ELSE x
StripQuotes(x) == IF x = "\"i-1\"" THEN "i-1" ELSE x

\* the commands the text interpreter can hand to process_query: resources are
\* lower-cased, parameters keep their order
TokensB == {"ec2", "vm", "s3", "costs", "metrics", "lambda"}
ActionsB == {"describe", "Get_Costs", "get_metrics"}
ParamInstanceId == [key |-> "instance-id", value |-> Scalar("\"i-1\"")]
ParamState == [key |-> "instance-state-name", value |-> ListOf(<<"running">>)]
ParamTimeframe == [key |-> "timeframe", value |-> Scalar("LastWeek")]
ParametersB ==
    {<<>>, <<ParamInstanceId>>, <<ParamState>>, <<ParamInstanceId, ParamState>>,
     <<ParamState, ParamInstanceId>>, <<ParamTimeframe>>}
CommandsB ==
    [platforms : SUBSET {"AWS", "Azure"}, resources : SeqsUpTo(TokensB, MaxRes),
     action : ActionsB, parameters : ParametersB]

\* the request body: the dates are optional
RequestsB ==
    [start_date : {"None", "now-7d", "now-30d", "now-40d"}, end_date : {"None", "now-35d"}]

\* the dates of the model are written by their distance from today; strptime
\* of line 182 reads the distance back
DefaultDays == 30
MonthDays == 30
DaysAgo(date) ==
    CASE date = "now" -> 0
      [] date = "now-7d" -> 7
      [] date = "now-35d" -> 35
      [] date = "now-40d" -> 40
      [] OTHER -> DefaultDays

\* parameters.get(k, default)
PHas(params, k) == \E i \in 1..Len(params) : params[i].key = k
PGet(params, k, default) ==
    IF PHas(params, k)
    THEN (CHOOSE e \in {params[i] : i \in 1..Len(params)} : e.key = k).value
    ELSE default

\* Python's truth test of a parameter value
PFalsy(v) == IF v.list THEN v.items = <<>> ELSE v.items[1] = ""

\* [str(v) for v in value if v and str(v).strip()]
RECURSIVE ValidValues(_)
ValidValues(xs) ==
    IF xs = <<>> THEN <<>>
    ELSE IF Head(xs) # "" /\ Strip(Head(xs)) # ""
         THEN <<Head(xs)>> \o ValidValues(Tail(xs))
         ELSE ValidValues(Tail(xs))

\* convert_to_aws_filters, lines 43-58
RECURSIVE convert_to_aws_filters(_)
convert_to_aws_filters(params) ==
    IF params = <<>> THEN <<>>
    ELSE LET key == Head(params).key
             value == Head(params).value
             rest == convert_to_aws_filters(Tail(params))
         IN  IF PFalsy(value) THEN rest
             ELSE IF value.list
             THEN IF ValidValues(value.items) # <<>>
                  THEN <<[Name |-> key, Values |-> ValidValues(value.items)]>> \o rest
                  ELSE rest
             ELSE IF Strip(value.items[1]) # ""
                  THEN <<[Name |-> key, Values |-> <<value.items[1]>>]>> \o rest
                  ELSE rest

\* `any(r.lower() in words for r in resources)`: the tokens are lower case
AnyIn(resources, words) == \E i \in 1..Len(resources) : Lower(resources[i]) \in words

ComputeWords == {"ec2", "instance", "instances", "vm", "vms"}
StorageWords == {"s3", "storage", "blob"}
CostWords == {"costs", "cost"}

\* line 89: parsed.get('platform', 'aws').lower(); the interpreter's result
\* has the keys platforms, resources, action and parameters
PlatformOfParsed(parsed) ==
    Lower(IF "platform" \in DOMAIN parsed THEN parsed.platform ELSE "aws")

\* what the inner try block (lines 84-303) ends with:
\*   "return"  an early return of an envelope with details
\*   "raise"   an exception, which the handler of line 305 catches
\*   "fall"    the end of the block: `data` goes into the Success envelope
TryReturn(message, status, cs, ls) ==
    [kind |-> "return", message |-> message, status |-> status, data |-> Mapping(0),
     code |-> 0, msg |-> "", calls |-> cs, llm_calls |-> ls]
TryRaise(code, msg, cs, ls) ==
    [kind |-> "raise", message |-> "", status |-> "", data |-> PyNone,
     code |-> code, msg |-> msg, calls |-> cs, llm_calls |-> ls]
TryFall(data, cs, ls) ==
    [kind |-> "fall", message |-> "", status |-> "", data |-> data,
     code |-> 0, msg |-> "", calls |-> cs, llm_calls |-> ls]

\* a gateway call of the block: what follows depends on the call's outcome
CallsOf(op, token, arg) == {Call(op, token, arg, w) : w \in Worlds(op)}

\* lines 92-132
ComputeBranch(req, parsed, ls) ==
    IF PlatformOfParsed(parsed) = "aws"
    THEN { IF c.raised THEN TryRaise(0, c.msg, <<c>>, ls)
           ELSE IF Falsy(c.value) THEN TryReturn("No EC2 instances found", "empty", <<c>>, ls)
           ELSE TryFall(c.value, <<c>>, ls)
           : c \in CallsOf("list_ec2_instances", "compute",
                           convert_to_aws_filters(parsed.parameters)) }
    ELSE { IF c.raised THEN TryRaise(0, c.msg, <<c>>, ls)
           ELSE IF Falsy(c.value) THEN TryReturn("No Azure VMs found", "empty", <<c>>, ls)
           ELSE TryFall(c.value, <<c>>, ls)
           : c \in CallsOf("list_virtual_machines", "compute",
                           PGet(parsed.parameters, "resource_group", "None")) }

\* lines 135-171
StorageBranch(req, parsed, ls) ==
    IF PlatformOfParsed(parsed) = "aws"
    THEN { IF c.raised THEN TryRaise(0, c.msg, <<c>>, ls)
           ELSE IF Falsy(c.value) THEN TryReturn("No S3 buckets found", "empty", <<c>>, ls)
           ELSE TryFall(c.value, <<c>>, ls)
           : c \in CallsOf("list_s3_buckets", "storage", "") }
    ELSE { IF c.raised THEN TryRaise(0, c.msg, <<c>>, ls)
           ELSE IF c.value.status = "empty"
           THEN TryReturn("No Azure storage accounts found", "empty", <<c>>, ls)
           ELSE TryFall(c.value, <<c>>, ls)
           : c \in CallsOf("list_storage_accounts", "storage", "") }

\* lines 176-177: the window of the cost query
CostWindow(req) ==
    [start |-> IF req.start_date # "None" THEN req.start_date ELSE "now-30d",
     end |-> IF req.end_date # "None" THEN req.end_date ELSE "now"]
\* line 182: (now - start).days >= 30
Timeframe(window) ==
    IF DaysAgo(window.start) - DaysAgo("now") >= MonthDays THEN "LastMonth" ELSE "LastWeek"

\* lines 189-192: the recommendations are stored in the cost data, under
\* data['data'] when the data is an envelope (whose own length stays) and as
\* one more key of the mapping otherwise; on None or a list the assignment
\* raises inside the try of line 184
WithRecommendations(v) == IF v.shape = "mapping" THEN Mapping(v.n + 1) ELSE v

\* a cost branch in which a failure of get_cost_optimization is not caught
CostBranchStrict(req, parsed, ls) ==
    UNION { IF c.raised THEN {TryRaise(0, c.msg, <<c>>, ls)}
            ELSE { IF optRaises
                   THEN TryRaise(0, "Error getting cost optimization recommendations", <<c>>,
                                 Append(ls, [method |-> "get_cost_optimization", arg |-> <<>>,
                                             raised |-> TRUE]))
                   ELSE TryFall(WithRecommendations(c.value), <<c>>,
                                Append(ls, [method |-> "get_cost_optimization", arg |-> <<>>,
                                            raised |-> FALSE]))
                   : optRaises \in BOOLEAN }
            : c \in IF PlatformOfParsed(parsed) = "aws"
                    THEN CallsOf("get_cost_and_usage", "costs", CostWindow(req))
                    ELSE CallsOf("get_cost_analysis", "costs", Timeframe(CostWindow(req))) }

\* lines 174-196: a failure of get_cost_optimization is passed over
CostBranch(req, parsed, ls) ==
    UNION { IF c.raised THEN {TryRaise(0, c.msg, <<c>>, ls)}
            ELSE { TryFall(IF optRaises THEN c.value ELSE WithRecommendations(c.value),
                           <<c>>,
                           Append(ls, [method |-> "get_cost_optimization", arg |-> <<>>,
                                       raised |-> optRaises]))
                   : optRaises \in BOOLEAN }
            : c \in IF PlatformOfParsed(parsed) = "aws"
                    THEN CallsOf("get_cost_and_usage", "costs", CostWindow(req))
                    ELSE CallsOf("get_cost_analysis", "costs", Timeframe(CostWindow(req))) }

\* a metrics branch that fetches without looking for the instance first
MetricsBranchUnchecked(req, parsed, ls) ==
    LET instance_id == PGet(parsed.parameters, "instance-id", Scalar(""))
    IN  IF PFalsy(instance_id)
        THEN {TryRaise(400, "Instance ID is required for metrics queries", <<>>, ls)}
        ELSE IF instance_id.list
        THEN {TryRaise(0, "AttributeError", <<>>, ls)}
        ELSE { IF c2.raised THEN TryRaise(0, c2.msg, <<c2>>, ls)
               ELSE IF Falsy(c2.value)
               THEN TryReturn("No metrics data found", "empty", <<c2>>, ls)
               ELSE TryFall(c2.value, <<c2>>, ls)
               : c2 \in CallsOf("get_cloudwatch_metrics", "metrics",
                                StripQuotes(instance_id.items[1])) }

\* lines 199-300
MetricsBranch(req, parsed, ls) ==
    IF PlatformOfParsed(parsed) = "aws" THEN
        LET instance_id == PGet(parsed.parameters, "instance-id", Scalar(""))
        IN  IF PFalsy(instance_id)
            THEN {TryRaise(400, "Instance ID is required for metrics queries", <<>>, ls)}
            ELSE IF instance_id.list
            THEN {TryRaise(0, "AttributeError", <<>>, ls)}
            ELSE UNION {
                IF c1.raised THEN {TryRaise(0, c1.msg, <<c1>>, ls)}
                ELSE IF Falsy(c1.value)
                THEN {TryReturn("Instance not found", "error", <<c1>>, ls)}
                ELSE { IF c2.raised THEN TryRaise(0, c2.msg, <<c1, c2>>, ls)
                       ELSE IF Falsy(c2.value)
                       THEN TryReturn("No metrics data found", "empty", <<c1, c2>>, ls)
                       ELSE TryFall(c2.value, <<c1, c2>>, ls)
                       : c2 \in CallsOf("get_cloudwatch_metrics", "metrics",
                                        StripQuotes(instance_id.items[1])) }
                : c1 \in CallsOf("list_ec2_instances", "metrics",
                                 <<[Name |-> "instance-id",
                                    Values |-> <<StripQuotes(instance_id.items[1])>>]>>) }
    ELSE IF ~PHas(parsed.parameters, "resource_group") \/ ~PHas(parsed.parameters, "vm_name")
    THEN {TryRaise(400, "Resource group and VM name are required for Azure metrics queries",
                   <<>>, ls)}
    ELSE { IF c.raised THEN TryRaise(0, c.msg, <<c>>, ls)
           ELSE IF c.value.status = "error"
           THEN TryReturn("Failed to get VM metrics", "error", <<c>>, ls)
           ELSE TryFall(c.value, <<c>>, ls)
           : c \in CallsOf("get_vm_metrics", "metrics", PGet(parsed.parameters, "vm_name", "")) }

\* which branch of the if/elif chain of lines 92-303 a command takes
BranchOf(parsed) ==
    IF AnyIn(parsed.resources, ComputeWords) THEN "compute"
    ELSE IF AnyIn(parsed.resources, StorageWords) THEN "storage"
    ELSE IF (\E i \in 1..Len(parsed.resources) : parsed.resources[i] \in CostWords)
            \/ Contains(Lower(parsed.action), "cost") THEN "costs"
    ELSE IF InSeq("metrics", parsed.resources)
            \/ Contains(Lower(parsed.action), "get_metrics") THEN "metrics"
    ELSE "unsupported"

\* lines 84-303: the inner try block
TryBlock(req, parsed, ls) ==
    CASE BranchOf(parsed) = "compute" -> ComputeBranch(req, parsed, ls)
      [] BranchOf(parsed) = "storage" -> StorageBranch(req, parsed, ls)
      [] BranchOf(parsed) = "costs" -> CostBranch(req, parsed, ls)
      [] BranchOf(parsed) = "metrics" -> MetricsBranch(req, parsed, ls)
      [] OTHER -> {TryRaise(400, "Unsupported resource type or action", <<>>, ls)}

\* what process_query of query.py gives its caller
\*   outcome  "returned" | "http400" | "http500"
\*   error    the operation error the detail carries ("" if none)
\*   analysis TRUE when the detail carries the analyst's sections
ResponseB(outcome, message, status, data, error, analysis, cs, ls) ==
    [outcome |-> outcome, message |-> message, status |-> status, data |-> data,
     error |-> error, analysis |-> analysis, calls |-> cs, llm_calls |-> ls]

\* lines 305-331: every exception of the block, the HTTPException of line 303
\* included, goes to analyze_error; its own failure goes to the outer except
Handle(t) ==
    IF t.kind = "return"
    THEN {ResponseB("returned", t.message, t.status, t.data, "", FALSE, t.calls, t.llm_calls)}
    ELSE IF t.kind = "fall"
    THEN {ResponseB("returned", "Success", "", t.data, "", FALSE, t.calls, t.llm_calls)}
    ELSE { IF analystRaises
           THEN ResponseB("http500", "", "", PyNone, "Error analyzing cloud error", FALSE,
                          t.calls,
                          Append(t.llm_calls, [method |-> "analyze_error", arg |-> <<t.msg>>,
                                               raised |-> TRUE]))
           ELSE ResponseB("http500", "", "", PyNone, t.msg, TRUE, t.calls,
                          Append(t.llm_calls, [method |-> "analyze_error", arg |-> <<t.msg>>,
                                               raised |-> FALSE]))
           : analystRaises \in BOOLEAN }

\* lines 67-331, once the interpreter has returned `parsed`
process_query(req, parsed) ==
    UNION { Handle(t)
            : t \in TryBlock(req, parsed,
                             <<[method |-> "process_cloud_query",
                                arg |-> <<"AWS", "Azure">>, raised |-> FALSE]>>) }

\* query.py builds its clients per request (Depends): the handler runs when
\* the three constructors have returned
InitQuery ==
    /\ pc = "idle"
    /\ aws_client = TRUE
    /\ azure_client = TRUE
    /\ llm_service = TRUE
    /\ request = NoRequest
    /\ command = NoCommand
    /\ calls = <<>>
    /\ llm_calls = <<>>
    /\ response = NoResponse

\* the interpreter raises: the outer except of lines 328-331
ProcessQueryInterpreterFails ==
    /\ pc = "idle"
    /\ pc' = "done"
    /\ \E req \in RequestsB : request' = req
    /\ llm_calls' = <<[method |-> "process_cloud_query", arg |-> <<"AWS", "Azure">>,
                       raised |-> TRUE]>>
    /\ response' = ResponseB("http500", "", "", PyNone, "Error processing cloud query",
                             FALSE, <<>>, llm_calls')
    /\ UNCHANGED <<aws_client, azure_client, llm_service, command, calls>>

ProcessQueryB ==
    /\ pc = "idle"
    /\ pc' = "done"
    /\ \E req \in RequestsB : \E parsed \in CommandsB :
          \E r \in process_query(req, parsed) :
             /\ request' = req
             /\ command' = parsed
             /\ calls' = r.calls
             /\ llm_calls' = r.llm_calls
             /\ response' = r
    /\ UNCHANGED <<aws_client, azure_client, llm_service>>

NextQuery == ProcessQueryInterpreterFails \/ ProcessQueryB \/ NextRequest

SpecQuery == InitQuery /\ [][NextQuery]_vars

(***************************************************************************)
(* SpecGateway: the gateway operations called directly.                    *)
(***************************************************************************)
InitGateway ==
    /\ pc = "idle"
    /\ aws_client = TRUE
    /\ azure_client = TRUE
    /\ llm_service = FALSE
    /\ request = NoRequest
    /\ command = NoCommand
    /\ calls = <<>>
    /\ llm_calls = <<>>
    /\ response = NoResponse

GatewayInvoke ==
    /\ Len(calls) < MaxGwCalls
    /\ \E op \in GatewayOps : \E w \in Worlds(op) :
          calls' = Append(calls, Call(op, "", "", w))
    /\ UNCHANGED <<pc, aws_client, azure_client, llm_service, request, command, llm_calls,
                   response>>

NextGateway == GatewayInvoke

SpecGateway == InitGateway /\ [][NextGateway]_vars

(***************************************************************************)
(* AzureClient.start_vm / stop_vm / restart_vm in detail (azure_client.py  *)
(* lines 804-939), provider call by provider call.  Here                   *)
(*   request  the operation and its arguments                              *)
(*   calls    the provider calls made so far, each with whether it raised  *)
(*   command  the local `status` of the operation                          *)
(*   pc       "idle" | "begin" | "wait" | "status" | "return" | "except"   *)
(*            | "done"                                                     *)
(***************************************************************************)
VmRequests ==
    [op : {"start_vm", "stop_vm", "restart_vm"}, deallocate : BOOLEAN,
     resource_group : {"rg1", "rg2"}, vm_name : {"vm1", "vm2"}]

\* the long-running operation the request begins
BeginCall(req) ==
    CASE req.op = "start_vm" -> "begin_start"
      [] req.op = "restart_vm" -> "begin_restart"
      [] req.deallocate -> "begin_deallocate"
      [] OTHER -> "begin_power_off"

ProviderCall(call, ok) == [call |-> call, raised |-> ~ok]

\* an operation that reads the status as soon as the operation has begun
AfterBeginNoWait(ok) == IF ok THEN "status" ELSE "except"

\* where control goes after begin_*: to poller.result(), or to the except
\* block when the call raised
AfterBegin(ok) == IF ok THEN "wait" ELSE "except"

InitVm ==
    /\ pc = "idle"
    /\ aws_client = FALSE
    /\ azure_client = TRUE
    /\ llm_service = FALSE
    /\ request = NoRequest
    /\ command = NoCommand
    /\ calls = <<>>
    /\ llm_calls = <<>>
    /\ response = NoResponse

\* start_vm, stop_vm or restart_vm is called
CallVm ==
    /\ pc = "idle"
    /\ \E req \in VmRequests :
          /\ req.op # "stop_vm" => req.deallocate
          /\ request' = req
    /\ pc' = "begin"
    /\ UNCHANGED <<aws_client, azure_client, llm_service, command, calls, llm_calls,
                   response>>

\* lines 815-818, 858-867, 910-913: poller = begin_*(...)
BeginOperation ==
    /\ pc = "begin"
    /\ \E ok \in BOOLEAN :
          /\ calls' = Append(calls, ProviderCall(BeginCall(request), ok))
          /\ pc' = AfterBegin(ok)
    /\ UNCHANGED <<aws_client, azure_client, llm_service, request, command, llm_calls,
                   response>>

\* lines 819, 869, 914: poller.result() returns when the operation is over
WaitResult ==
    /\ pc = "wait"
    /\ \E ok \in BOOLEAN :
          /\ calls' = Append(calls, ProviderCall("poller.result", ok))
          /\ pc' = IF ok THEN "status" ELSE "except"
    /\ UNCHANGED <<aws_client, azure_client, llm_service, request, command, llm_calls,
                   response>>

\* lines 822, 872, 917 with get_vm_status, lines 166-186: the instance view
\* or, when reading it raises, {'error': ...}
ReadStatus ==
    /\ pc = "status"
    /\ \E ok \in BOOLEAN :
          /\ calls' = Append(calls, ProviderCall("instance_view", ok))
          /\ command' = [status |-> IF ok THEN "statuses" ELSE "error"]
    /\ pc' = "return"
    /\ UNCHANGED <<aws_client, azure_client, llm_service, request, llm_calls, response>>

\* lines 824-832 and 834-844 (875-885 and 887-897, 919-927 and 929-939): the
\* success envelope of the try block, or the error envelope of the except
ReturnEnvelope ==
    /\ pc \in {"return", "except"}
    /\ response' = [raised |-> FALSE,
                    status |-> IF pc = "return" THEN "success" ELSE "error",
                    vm_name |-> request.vm_name,
                    resource_group |-> request.resource_group,
                    current_status |-> IF pc = "return" THEN command.status ELSE "absent"]
    /\ pc' = "done"
    /\ UNCHANGED <<aws_client, azure_client, llm_service, request, command, calls, llm_calls>>

NextVm == CallVm \/ BeginOperation \/ WaitResult \/ ReadStatus \/ ReturnEnvelope \/ NextRequest

SpecVm == InitVm /\ [][NextVm]_vars

(***************************************************************************)
(* AWSClient.list_s3_buckets in detail (aws_client.py lines 80-208): the   *)
(* listing, bucket by bucket.  A bucket of the account is its name, its    *)
(* region and the per-bucket call that fails for it, if any:               *)
(*   call  "none" | "get_bucket_location" | "list_objects" |               *)
(*         "get_bucket_tagging" | "get_bucket_versioning" |                *)
(*         "get_bucket_encryption"                                         *)
(*   kind  "client"  a ClientError                                         *)
(*         "absent"  the ClientError that says the bucket has no tag set / *)
(*                   no encryption configuration                           *)
(*         "other"   an exception that is no ClientError                   *)
(***************************************************************************)
MaxBuckets == 3

BucketCalls == <<"get_bucket_location", "list_objects", "get_bucket_tagging",
                 "get_bucket_versioning", "get_bucket_encryption">>
NoFault == [call |-> "none", kind |-> "none"]
BucketFaults ==
    {NoFault}
    \cup {[call |-> BucketCalls[i], kind |-> k] : i \in 1..Len(BucketCalls),
                                                  k \in {"client", "other"}}
    \cup {[call |-> c, kind |-> "absent"]
          : c \in {"get_bucket_tagging", "get_bucket_encryption"}}
Regions == {"us-east-1", "eu-west-2"}

\* the account whose bucket i is named i, lies in rg[i] and fails as ft[i]
Account(n, rg, ft) == [i \in 1..n |-> [Name |-> i, Region |-> rg[i], fault |-> ft[i]]]

\* lines 200-206 and 33: what list_buckets itself does
ListFaults == {"none", "client", "other"}

\* lines 104-114, 128, 143, 155, 163-171: the bucket_info appended for a bucket
BucketInfo(b) ==
    [Name |-> b.Name, Region |-> b.Region,
     AccessStatus |-> IF b.fault.kind = "client" THEN "Limited" ELSE "Full",
     Encryption |-> IF b.fault.call = "get_bucket_encryption" THEN "Disabled"
                    ELSE "Enabled"]

\* one iteration that passes over a bucket whose region cannot be read without
\* recording it
BucketStepSilent(b, acc) ==
    IF b.fault.kind = "other"
    THEN [acc EXCEPT !.raised = TRUE]
    ELSE IF b.fault.call = "get_bucket_location"
    THEN acc
    ELSE [acc EXCEPT
            !.data = Put(@, b.Region, Append(Get(@, b.Region, <<>>), BucketInfo(b))),
            !.errors = IF b.fault.kind = "client"
                       THEN Append(@, [bucket |-> b.Name, operation |-> b.fault.call])
                       ELSE @]

\* lines 97-180: one iteration of the loop over response['Buckets']
\*   acc  [raised, data, errors, inaccessible]
BucketStep(b, acc) ==
    IF b.fault.kind = "other"
    THEN [acc EXCEPT !.raised = TRUE]
    ELSE IF b.fault.call = "get_bucket_location"
    THEN [acc EXCEPT !.inaccessible = Append(@, [bucket |-> b.Name])]
    ELSE [acc EXCEPT
            !.data = Put(@, b.Region, Append(Get(@, b.Region, <<>>), BucketInfo(b))),
            !.errors = IF b.fault.kind = "client"
                       THEN Append(@, [bucket |-> b.Name, operation |-> b.fault.call])
                       ELSE @]

RECURSIVE BucketLoop(_, _, _)
BucketLoop(buckets, i, acc) ==
    IF i > Len(buckets) \/ acc.raised THEN acc
    ELSE BucketLoop(buckets, i + 1, BucketStep(buckets[i], acc))

\* what list_s3_buckets gives: it raises, or returns the mapping with status,
\* data, and the lists under "warnings" and "inaccessible_buckets" (an empty
\* list stands for a key that is not set)
S3Result(raised, status, data, warnings, inaccessible) ==
    [raised |-> raised, status |-> status, data |-> data, warnings |-> warnings,
     inaccessible |-> inaccessible]

\* a listing whose status says "success" whenever the account has buckets
ListS3BucketsCounted(listFault, buckets) ==
    IF listFault = "other" THEN S3Result(TRUE, "", EmptyMap, <<>>, <<>>)
    ELSE IF listFault = "client" THEN S3Result(FALSE, "error", EmptyMap, <<>>, <<>>)
    ELSE IF buckets = <<>> THEN S3Result(FALSE, "empty", EmptyMap, <<>>, <<>>)
    ELSE LET acc == BucketLoop(buckets, 1,
                               [raised |-> FALSE, data |-> EmptyMap, errors |-> <<>>,
                                inaccessible |-> <<>>])
         IN  IF acc.raised THEN S3Result(TRUE, "", EmptyMap, <<>>, <<>>)
             ELSE S3Result(FALSE, "success", acc.data, acc.errors, acc.inaccessible)

\* lines 80-208
ListS3Buckets(listFault, buckets) ==
    IF listFault = "other" THEN S3Result(TRUE, "", EmptyMap, <<>>, <<>>)
    ELSE IF listFault = "client" THEN S3Result(FALSE, "error", EmptyMap, <<>>, <<>>)
    ELSE IF buckets = <<>> THEN S3Result(FALSE, "empty", EmptyMap, <<>>, <<>>)
    ELSE LET acc == BucketLoop(buckets, 1,
                               [raised |-> FALSE, data |-> EmptyMap, errors |-> <<>>,
                                inaccessible |-> <<>>])
         IN  IF acc.raised THEN S3Result(TRUE, "", EmptyMap, <<>>, <<>>)
             ELSE S3Result(FALSE, IF acc.data # EmptyMap THEN "success" ELSE "empty",
                           acc.data, acc.errors, acc.inaccessible)

InitS3 ==
    /\ pc = "idle"
    /\ aws_client = TRUE
    /\ azure_client = FALSE
    /\ llm_service = FALSE
    /\ request = NoRequest
    /\ command = NoCommand
    /\ calls = <<>>
    /\ llm_calls = <<>>
    /\ response = NoResponse

\* one call of aws_client.list_s3_buckets() on some account
ListS3 ==
    /\ pc = "idle"
    /\ pc' = "done"
    /\ \E lf \in ListFaults : \E n \in 0..MaxBuckets :
          \E rg \in [1..n -> Regions] : \E ft \in [1..n -> BucketFaults] :
             /\ lf # "none" => n = 0
             /\ request' = [list_fault |-> lf, buckets |-> Account(n, rg, ft)]
             /\ response' = ListS3Buckets(lf, Account(n, rg, ft))
    /\ UNCHANGED <<aws_client, azure_client, llm_service, command, calls, llm_calls>>

NextS3 == ListS3 \/ NextRequest

SpecS3 == InitS3 /\ [][NextS3]_vars

(***************************************************************************)
(* LLMService.process_cloud_query of app/llm/llm_service.py: the parser of *)
(* the model's sectioned text (lines 48-100).                              *)
(*                                                                         *)
(* A string is a sequence of symbols.  A symbol is one of the characters   *)
(* the parser looks at (space, '-', ':', '[', ']', ',', '"') or a word, a  *)
(* run of other characters taken as one piece.                             *)
(***************************************************************************)
MaxLines == 3

\* str.lower(), word by word
LowerSym(c) ==
    CASE c = "Platforms" -> "platforms"
      [] c = "Resources" -> "resources"
      [] c = "Action" -> "action"
      [] c = "Parameters" -> "parameters"
      [] c = "EC2" -> "ec2"
      [] OTHER -> c
StrLower(str) == [i \in 1..Len(str) |-> LowerSym(str[i])]

\* str.strip(chars)
RECURSIVE LStrip(_, _)
LStrip(str, chars) ==
    IF str # <<>> /\ Head(str) \in chars THEN LStrip(Tail(str), chars) ELSE str
RECURSIVE RStrip(_, _)
RStrip(str, chars) ==
    IF str # <<>> /\ str[Len(str)] \in chars
    THEN RStrip(SubSeq(str, 1, Len(str) - 1), chars) ELSE str
StrStrip(str) == RStrip(LStrip(str, {" "}), {" "})
StripChars(str, chars) == RStrip(LStrip(str, chars), chars)

\* str.startswith(prefix), str.endswith(suffix), c in str
StartsWith(str, prefix) ==
    Len(str) >= Len(prefix) /\ SubSeq(str, 1, Len(prefix)) = prefix
EndsWith(str, suffix) ==
    Len(str) >= Len(suffix)
    /\ SubSeq(str, Len(str) - Len(suffix) + 1, Len(str)) = suffix
HasSym(str, c) == \E i \in 1..Len(str) : str[i] = c

\* str.split(sep): the pieces between the separators
RECURSIVE Split(_, _)
Split(str, sep) ==
    IF ~HasSym(str, sep) THEN <<str>>
    ELSE LET i == CHOOSE k \in 1..Len(str) :
                      str[k] = sep /\ \A j \in 1..(k - 1) : str[j] # sep
         IN  <<SubSeq(str, 1, i - 1)>> \o Split(SubSeq(str, i + 1, Len(str)), sep)

\* a split at the last separator only
SplitAtLast(str, sep) ==
    IF ~HasSym(str, sep) THEN <<str>>
    ELSE LET i == CHOOSE k \in 1..Len(str) :
                      str[k] = sep /\ \A j \in (k + 1)..Len(str) : str[j] # sep
         IN  <<SubSeq(str, 1, i - 1), SubSeq(str, i + 1, Len(str))>>

\* str.split(sep, 1): at the first separator only
SplitOnce(str, sep) ==
    IF ~HasSym(str, sep) THEN <<str>>
    ELSE LET i == CHOOSE k \in 1..Len(str) :
                      str[k] = sep /\ \A j \in 1..(k - 1) : str[j] # sep
         IN  <<SubSeq(str, 1, i - 1), SubSeq(str, i + 1, Len(str))>>

\* line 48-54: result before the first line
EmptyCommand == [platforms |-> <<>>, resources |-> <<>>, action |-> <<>>,
                 parameters |-> EmptyMap]

\* lines 93-95: the value of a parameter written [item, item, ...]
ListValue(value) ==
    LET inner == SubSeq(value, 2, Len(value) - 1)
        parts == Split(inner, ",")
    IN  [list |-> TRUE,
         items |-> [i \in 1..Len(parts) |-> StripChars(StrStrip(parts[i]), {"\""})]]
ScalarValue(value) == [list |-> FALSE, items |-> <<value>>]

\* the Parameters line unpacked without the test of line 91
ParameterLineUnguarded(st, line) ==
    LET parts == SplitOnce(line, ":")
    IN  IF Len(parts) # 2 THEN [st EXCEPT !.raised = TRUE]
        ELSE [st EXCEPT !.result.parameters =
                 Put(@, StrStrip(parts[1]), ScalarValue(StrStrip(parts[2])))]

\* lines 90-98: a bulleted line of the Parameters section
\*   st  [section, result, raised]
ParameterLine(st, line) ==
    IF ~HasSym(line, ":") THEN st
    ELSE LET parts == SplitOnce(line, ":")
         IN  IF Len(parts) # 2 THEN [st EXCEPT !.raised = TRUE]
             ELSE LET key == StrStrip(parts[1])
                      value == StrStrip(parts[2])
                  IN  [st EXCEPT !.result.parameters =
                          Put(@, key,
                              IF StartsWith(value, <<"[">>) /\ EndsWith(value, <<"]">>)
                              THEN ListValue(value) ELSE ScalarValue(value))]

\* a content line handled with the first action kept
ContentLineFirstAction(st, stripped) ==
    IF ~StartsWith(stripped, <<"-">>) THEN st
    ELSE LET line == StrStrip(Tail(stripped))
         IN  CASE st.section = "platforms" ->
                    IF line # <<>>
                    THEN [st EXCEPT !.result.platforms = Append(@, line)] ELSE st
               [] st.section = "resources" ->
                    IF line # <<>>
                    THEN [st EXCEPT !.result.resources = Append(@, StrLower(line))]
                    ELSE st
               [] st.section = "action" ->
                    IF line # <<>> /\ st.result.action = <<>>
                    THEN [st EXCEPT !.result.action = line] ELSE st
               [] st.section = "parameters" -> ParameterLine(st, line)
               [] OTHER -> st

\* lines 79-98: a line that is no header
ContentLine(st, stripped) ==
    IF ~StartsWith(stripped, <<"-">>) THEN st
    ELSE LET line == StrStrip(Tail(stripped))
         IN  CASE st.section = "platforms" ->
                    IF line # <<>>
                    THEN [st EXCEPT !.result.platforms = Append(@, line)] ELSE st
               [] st.section = "resources" ->
                    IF line # <<>>
                    THEN [st EXCEPT !.result.resources = Append(@, StrLower(line))]
                    ELSE st
               [] st.section = "action" ->
                    IF line # <<>> THEN [st EXCEPT !.result.action = line] ELSE st
               [] st.section = "parameters" -> ParameterLine(st, line)
               [] OTHER -> st

\* lines 58-98: the body of the loop over the lines
ParseLine(st, raw) ==
    LET line == StrStrip(raw)
        lower_line == StrLower(line)
    IN  IF line = <<>> THEN st
        ELSE IF StartsWith(lower_line, <<"platforms", ":">>)
        THEN [st EXCEPT !.section = "platforms"]
        ELSE IF StartsWith(lower_line, <<"resources", ":">>)
        THEN [st EXCEPT !.section = "resources"]
        ELSE IF StartsWith(lower_line, <<"action", ":">>)
        THEN [st EXCEPT !.section = "action"]
        ELSE IF StartsWith(lower_line, <<"parameters", ":">>)
        THEN [st EXCEPT !.section = "parameters"]
        ELSE ContentLine(st, line)

RECURSIVE ParseLines(_, _, _)
ParseLines(lines, i, st) ==
    IF i > Len(lines) \/ st.raised THEN st
    ELSE ParseLines(lines, i + 1, ParseLine(st, lines[i]))

\* lines 48-103, given the lines of the model's answer: the command returned,
\* or raised = TRUE when the except of line 102 raises
process_cloud_query(lines) ==
    ParseLines(lines, 1, [section |-> "", result |-> EmptyCommand, raised |-> FALSE])

\* the lines an answer of the model is made of here: headers in both cases
\* and with text after them, bulleted and unbulleted content, blank lines,
\* parameters with and without ':', lists closed, unclosed and empty
LineVocabulary ==
    << <<"Platforms", ":">>,
       <<"Resources", ":">>,
       <<"Action", ":">>,
       <<"Action", ":", " ", "analyze">>,
       <<" ", "parameters", ":", " ">>,
       <<"-", " ", "AWS">>,
       <<" ", "-", "EC2", " ">>,
       <<"-", " ", "describe">>,
       <<"-">>,
       <<"describe">>,
       <<" ">>,
       <<"-", " ", "k", ":", " ", "a">>,
       <<"-", "k", " ", ":", "b", ":", "c">>,
       <<"-", " ", "k">>,
       <<"-", "tag", ":", "Name", ":", " ", "[", "\"", "a", "\"", ",", " ", "b", "]">>,
       <<"-", "k", ":", "[", "]">>,
       <<"-", "k", ":", "[", "a">>,
       <<"-", "j", ":", " ", "[", "\"", "a", "\"", "]", " ">> >>

\* CLOUD_QUERY_TEMPLATE (prompt_template.py lines 20-58): the layout the model
\* is asked for, one bulleted line per item, lists as ["item", "item"]
Bullet(str) == <<"-", " ">> \o str
RECURSIVE JoinItems(_, _)
JoinItems(items, i) ==
    IF i > Len(items) THEN <<>>
    ELSE (IF i > 1 THEN <<",", " ">> ELSE <<>>) \o <<"\"">> \o items[i] \o <<"\"">>
         \o JoinItems(items, i + 1)
FormatValue(v) ==
    IF v.list THEN <<"[">> \o JoinItems(v.items, 1) \o <<"]">> ELSE v.items[1]
RECURSIVE FormatParameters(_, _)
FormatParameters(params, keys) ==
    IF keys = {} THEN <<>>
    ELSE LET k == CHOOSE x \in keys : TRUE
         IN  <<Bullet(k \o <<":", " ">> \o FormatValue(params[k]))>>
             \o FormatParameters(params, keys \ {k})
Format(cmd) ==
    <<<<"Platforms", ":">>>> \o [i \in 1..Len(cmd.platforms) |-> Bullet(cmd.platforms[i])]
    \o <<<<"Resources", ":">>>> \o [i \in 1..Len(cmd.resources) |-> Bullet(cmd.resources[i])]
    \o <<<<"Action", ":">>>> \o (IF cmd.action # <<>> THEN <<Bullet(cmd.action)>> ELSE <<>>)
    \o <<<<"Parameters", ":">>>> \o FormatParameters(cmd.parameters, DOMAIN cmd.parameters)

\* the Structured Commands that are rendered and parsed back
FormatParametersSet ==
    { EmptyMap,
      Put(EmptyMap, <<"k">>, ScalarValue(<<"a">>)),
      Put(EmptyMap, <<"k">>, [list |-> TRUE, items |-> << <<"a">>, <<"b">> >>]),
      Put(Put(EmptyMap, <<"k">>, ScalarValue(<<"a">>)), <<"j">>,
          [list |-> TRUE, items |-> << <<"a">> >>]),
      Put(EmptyMap, <<"tag", ":", "Name">>, [list |-> TRUE, items |-> << <<"a">> >>]),
      Put(EmptyMap, <<"k">>, [list |-> TRUE, items |-> << <<"a", ",", "b">> >>]) }
FormatCommands ==
    { [platforms |-> ps, resources |-> rs, action |-> a, parameters |-> params]
      : ps \in {<<>>, << <<"AWS">> >>, << <<"AWS">>, <<"Azure">> >>},
        rs \in {<<>>, << <<"ec2">> >>, << <<"ec2">>, <<"costs">> >>},
        a \in {<<>>, <<"describe">>},
        params \in FormatParametersSet }

InitParser ==
    /\ pc = "idle"
    /\ aws_client = FALSE
    /\ azure_client = FALSE
    /\ llm_service = TRUE
    /\ request = NoRequest
    /\ command = NoCommand
    /\ calls = <<>>
    /\ llm_calls = <<>>
    /\ response = NoResponse

\* process_cloud_query when the model answers with some lines
ParseText ==
    /\ pc = "idle"
    /\ pc' = "done"
    /\ \E n \in 0..MaxLines : \E pick \in [1..n -> 1..Len(LineVocabulary)] :
          LET lines == [i \in 1..n |-> LineVocabulary[pick[i]]]
          IN  /\ request' = [lines |-> lines, round_trip |-> FALSE,
                             formatted |-> EmptyCommand]
              /\ response' = process_cloud_query(lines)
    /\ UNCHANGED <<aws_client, azure_client, llm_service, command, calls, llm_calls>>

\* process_cloud_query when the model answers with the rendering of a command
ParseFormatted ==
    /\ pc = "idle"
    /\ pc' = "done"
    /\ \E cmd \in FormatCommands :
          /\ request' = [lines |-> Format(cmd), round_trip |-> TRUE, formatted |-> cmd]
          /\ response' = process_cloud_query(Format(cmd))
    /\ UNCHANGED <<aws_client, azure_client, llm_service, command, calls, llm_calls>>

NextParser == ParseText \/ ParseFormatted \/ NextRequest

SpecParser == InitParser /\ [][NextParser]_vars

(***************************************************************************)
(* What the claims about the parser of the sectioned text speak of.        *)
(***************************************************************************)
\* the parser has run on some lines of the vocabulary
ParsedText == pc = "done" /\ ~request.round_trip

\* the line is one of the four section headers
IsHeader(raw) ==
    ParseLine([section |-> "", result |-> EmptyCommand, raised |-> FALSE], raw).section # ""

\* the lines from the first section header on
RECURSIVE FromFirstHeader(_)
FromFirstHeader(lines) ==
    IF lines = <<>> \/ IsHeader(Head(lines)) THEN lines
    ELSE FromFirstHeader(Tail(lines))

(***************************************************************************)
(* C12: the parser of the sectioned text never raises: for every sequence  *)
(* of lines (unknown lines, missing or reordered sections, parameter lines *)
(* without ':') it returns a command with the four keys platforms,         *)
(* resources, action, parameters, and the lines before the first section   *)
(* header change nothing (the result is that of the remaining lines).      *)
(***************************************************************************)
C12_ParserNeverRaises ==
    ParsedText =>
        /\ ~response.raised
        /\ DOMAIN response.result = {"platforms", "resources", "action", "parameters"}
        /\ response.result = process_cloud_query(FromFirstHeader(request.lines)).result

\* C12 witness: an unbulleted line before any header, then the Parameters
\* header and a parameter line without ':'; the empty command has come back
C12_Witness ==
    /\ ParsedText
    /\ Len(request.lines) = 3
    /\ ~IsHeader(request.lines[1]) /\ StrStrip(request.lines[1]) # <<>>
    /\ StartsWith(StrLower(StrStrip(request.lines[2])), <<"parameters", ":">>)
    /\ request.lines[3] = <<"-", " ", "k">>
    /\ ~response.raised
    /\ response.result = EmptyCommand

(***************************************************************************)
(* C13: round trip of the textual encoding.  For every Structured Command  *)
(* (keys containing ':' such as tag:Name and list items containing ','     *)
(* included), parsing its rendering in the sectioned layout gives the same *)
(* command back.                                                           *)
(***************************************************************************)
C13_RoundTrip ==
    (pc = "done" /\ request.round_trip) =>
        /\ ~response.raised
        /\ response.result = request.formatted

\* the text of a bulleted line after its bullet (<<>> for another line)
Content(raw) ==
    IF StartsWith(StrStrip(raw), <<"-">>) THEN StrStrip(Tail(StrStrip(raw))) ELSE <<>>

\* the section a header line opens
HeaderKind(raw) ==
    ParseLine([section |-> "", result |-> EmptyCommand, raised |-> FALSE], raw).section

\* the header that line i of the text stands under ("" if none)
SectionAt(i) ==
    LET hs == {j \in 1..(i - 1) : IsHeader(request.lines[j])}
    IN  IF hs = {} THEN ""
        ELSE HeaderKind(request.lines[CHOOSE j \in hs : \A k \in hs : k <= j])

\* the bulleted lines of the Parameters sections that hold a ':'
ParamLineIndexes ==
    {i \in 1..Len(request.lines) :
        /\ ~IsHeader(request.lines[i])
        /\ SectionAt(i) = "parameters"
        /\ HasSym(Content(request.lines[i]), ":")}

FirstColon(str) == CHOOSE k \in 1..Len(str) : str[k] = ":" /\ \A j \in 1..(k - 1) : str[j] # ":"
KeyOf(i) ==
    LET c == Content(request.lines[i]) IN StrStrip(SubSeq(c, 1, FirstColon(c) - 1))
ValueTextOf(i) ==
    LET c == Content(request.lines[i]) IN StrStrip(SubSeq(c, FirstColon(c) + 1, Len(c)))
Wrapped(str) == Len(str) >= 1 /\ str[1] = "[" /\ str[Len(str)] = "]"
Count(str, c) == Cardinality({k \in 1..Len(str) : str[k] = c})

\* the symbols of the items, one item after the other
RECURSIVE Flatten(_)
Flatten(items) == IF items = <<>> THEN <<>> ELSE Head(items) \o Flatten(Tail(items))
IsWordSym(c) == c \notin {" ", "\"", ",", "[", "]"}

(***************************************************************************)
(* C14: each bulleted line of the Parameters section is split at its first *)
(* ':' into key and value; a value that starts with '[' and ends with ']'  *)
(* is stored as the list of its comma-separated items, without surrounding *)
(* blanks and double quotes, any other value as a scalar string; a later   *)
(* line with the same key overwrites the earlier one.                      *)
(***************************************************************************)
C14_ParameterLines ==
    ParsedText =>
        /\ DOMAIN response.result.parameters = {KeyOf(i) : i \in ParamLineIndexes}
        /\ \A i \in ParamLineIndexes :
              (\A j \in ParamLineIndexes : KeyOf(j) = KeyOf(i) => j <= i) =>
                 LET v == response.result.parameters[KeyOf(i)]
                     t == ValueTextOf(i)
                 IN  /\ v.list = Wrapped(t)
                     /\ ~v.list => v.items = <<t>>
                     /\ v.list =>
                           /\ Len(v.items) = Count(t, ",") + 1
                           /\ \A k \in 1..Len(v.items) :
                                 /\ ~HasSym(v.items[k], ",")
                                 /\ v.items[k] = StripChars(v.items[k], {" ", "\""})
                           /\ Flatten(v.items) = SelectSeq(t, IsWordSym)

\* C14 witness: two lines with the key k, the later one with two ':'; the
\* parameter k holds the later value, split at the first ':'
C14_Witness ==
    /\ ParsedText
    /\ Len(request.lines) = 3
    /\ ParamLineIndexes = {2, 3}
    /\ KeyOf(2) = KeyOf(3)
    /\ Count(Content(request.lines[3]), ":") = 2
    /\ response.result.parameters[<<"k">>] = ScalarValue(<<"b", ":", "c">>)

\* the bulleted lines with text of the Action sections
ActionLineIndexes ==
    {i \in 1..Len(request.lines) :
        /\ ~IsHeader(request.lines[i])
        /\ SectionAt(i) = "action"
        /\ Content(request.lines[i]) # <<>>}

ListedS3 == pc = "done" /\ request.list_fault = "none"

\* the buckets for which a per-bucket call raises a ClientError that is not
\* the "no tag set" / "no encryption configuration" answer
FailingBuckets == {i \in 1..Len(request.buckets) : request.buckets[i].fault.kind = "client"}

\* exactly one bucket of N > 1 fails, the others answer every call
OneOfManyFails ==
    /\ ListedS3
    /\ Len(request.buckets) > 1
    /\ Cardinality(FailingBuckets) = 1
    /\ \A i \in 1..Len(request.buckets) :
          i \notin FailingBuckets => request.buckets[i].fault = NoFault

TheFailing == CHOOSE i \in FailingBuckets : TRUE

\* the bucket_info entries of the result's data that have the name
InData(name) ==
    {e \in UNION {{response.data[r][k] : k \in 1..Len(response.data[r])}
                  : r \in DOMAIN response.data} : e.Name = name}

DispatchedA ==
    /\ pc = "done" /\ llm_calls # <<>>
    /\ llm_calls[1].method = "process_cloud_query" /\ ~llm_calls[1].raised

ClientOf(p) == IF p = "AWS" THEN aws_client ELSE azure_client
ErrKey(p) == IF p = "AWS" THEN "aws_error" ELSE "azure_error"

\* the resource loop of platform p selects a gateway operation for the
\* j-th resource token of cmd
SelectsOp(p, cmd, j) ==
    \E o \in IF p = "Azure"
             THEN AzureToken(cmd, cmd.resources[j], Acc(EmptyMap, <<>>))
             ELSE AwsToken(cmd, cmd.resources[j], Acc(EmptyMap, <<>>)) :
        o.acc.calls # <<>>

\* a gateway operation of platform p was invoked for resource token r
Invoked(p, r) ==
    \E k \in 1..Len(calls) : calls[k].platform = p /\ calls[k].token = r

Occurrences(r, s) == Cardinality({j \in 1..Len(s) : s[j] = r})
CallsFor(p, r) ==
    Cardinality({k \in 1..Len(calls) : calls[k].platform = p /\ calls[k].token = r})

(***************************************************************************)
(* C1: per-operation failure isolation.  When a gateway operation raises   *)
(* during dispatch, the request still returns a response, the response     *)
(* holds the "<platform>_error" entry with the exception's message, and    *)
(* every operation selected for the remaining resource tokens of the same  *)
(* platform and for the other platform is still invoked.                   *)
(***************************************************************************)
C1_FailureIsolation ==
    (DispatchedA /\ \E k \in 1..Len(calls) : calls[k].raised) =>
        /\ response.outcome = "returned"
        /\ \A k \in 1..Len(calls) : calls[k].raised =>
              /\ ErrKey(calls[k].platform) \in DOMAIN response.results
              /\ response.results[ErrKey(calls[k].platform)].msg = calls[k].msg
        /\ \A p \in command.platforms : \A j \in 1..Len(command.resources) :
              (ClientOf(p) /\ SelectsOp(p, command, j)) => Invoked(p, command.resources[j])

(***************************************************************************)
(* C2: platform independence.  For every command, each platform named in   *)
(* command.platforms that has no gateway gets the entry "<platform> client *)
(* not initialized" in the response, and every other named platform that   *)
(* has a gateway is still processed in the same response (each operation   *)
(* selected for it is invoked, or its own failure is in the response).     *)
(***************************************************************************)
C2_PlatformIndependence ==
    DispatchedA => \A p \in command.platforms : ~ClientOf(p) =>
        /\ response.outcome = "returned"
        /\ ErrKey(p) \in DOMAIN response.results
        /\ response.results[ErrKey(p)] = NotInitialized(p)
        /\ \A q \in command.platforms : \A j \in 1..Len(command.resources) :
              (ClientOf(q) /\ SelectsOp(q, command, j)) =>
                  \/ Invoked(q, command.resources[j])
                  \/ ErrKey(q) \in DOMAIN response.results

(***************************************************************************)
(* C7: for each configured platform of the command and each resource       *)
(* token, never two or more gateway invocations for the same platform and  *)
(* token within one dispatch (a token is invoked for at most as often as   *)
(* it occurs in command.resources).                                        *)
(***************************************************************************)
C7_AtMostOneInvocation ==
    DispatchedA => \A p \in command.platforms : \A j \in 1..Len(command.resources) :
        ClientOf(p) =>
            CallsFor(p, command.resources[j])
                <= Occurrences(command.resources[j], command.resources)

\* the interpreter has been called for the last request, and what the
\* completion request ended with
Interpreted(answer) ==
    /\ pc = "done" /\ llm_calls # <<>>
    /\ llm_calls[1].method = "process_cloud_query" /\ llm_calls[1].answer = answer

(***************************************************************************)
(* C16: if the language-model call fails during interpretation,            *)
(* process_cloud_query raises and gives no command: the request ends with  *)
(* the HTTP 500 error, execute_cloud_command is not run and no gateway     *)
(* operation is invoked.                                                   *)
(***************************************************************************)
C16_ModelFailureStopsRequest ==
    Interpreted("fails") =>
        /\ llm_calls[1].raised
        /\ command = NoCommand
        /\ response.outcome = "http500"
        /\ response.results = EmptyMap
        /\ calls = <<>>

\* C16 witness: with both gateways configured the completion request failed
\* and the request has ended with HTTP 500
C16_Witness ==
    /\ Interpreted("fails")
    /\ aws_client /\ azure_client
    /\ response.outcome = "http500"

(***************************************************************************)
(* C17: in the JSON interpretation path, when the model's answer cannot be *)
(* decoded as JSON, process_cloud_query does not raise and returns the     *)
(* all-empty command {platforms: [], resources: [], action: "",            *)
(* parameters: {}}, which is then executed (no platform, no invocation).   *)
(***************************************************************************)
C17_JsonFallback ==
    Interpreted("not_json") =>
        /\ ~llm_calls[1].raised
        /\ command.platforms = {} /\ command.resources = <<>>
        /\ command.action = "" /\ DOMAIN command.parameters = {}
        /\ response.outcome = "returned"
        /\ calls = <<>>

\* C17 witness: the answer was no JSON text and the handler has returned a
\* response with no results
C17_Witness ==
    /\ Interpreted("not_json")
    /\ aws_client
    /\ response.outcome = "returned"
    /\ response.results = EmptyMap

(***************************************************************************)
(* C18: analyze_error never raises because of the model's output: for      *)
(* every answer of the model it returns a mapping with exactly the four    *)
(* sections explanation, causes, solutions, prevention.                    *)
(***************************************************************************)
C18_AnalyzeErrorNeverRaises ==
    (/\ pc = "done" /\ llm_calls # <<>>
     /\ llm_calls[1].method = "analyze_error"
     /\ llm_calls[1].answer # "fails") =>
        /\ ~llm_calls[1].raised
        /\ response.outcome = "returned"
        /\ DOMAIN response.results = {"explanation", "causes", "solutions", "prevention"}

(***************************************************************************)
(* What the claims about process_query (routes/query.py) speak of.         *)
(***************************************************************************)
\* the last request got a Structured Command from the interpreter
DispatchedB == pc = "done" /\ llm_calls # <<>> /\ ~llm_calls[1].raised

AnalystInvoked == \E k \in 1..Len(llm_calls) : llm_calls[k].method = "analyze_error"

\* the branches that the resource tokens of cmd match, each taken alone
TokenBranches(cmd) ==
    {BranchOf([cmd EXCEPT !.resources = <<cmd.resources[j]>>, !.action = "describe"])
     : j \in 1..Len(cmd.resources)} \ {"unsupported"}

\* the cost branch of process_query has run for the last request
CostQueried == DispatchedB /\ BranchOf(command) = "costs"

\* the length in days of the window the request asks for
WindowDays ==
    DaysAgo(CostWindow(request).start) - DaysAgo(CostWindow(request).end)

(***************************************************************************)
(* C19: cost window.  When the request supplies no start and no end date,  *)
(* the cost query is made over [now - 30 days, now]; for Azure, which      *)
(* takes a named timeframe, the cost query is made with "LastMonth" for a  *)
(* window of 30 days or more and with "LastWeek" for a shorter one.        *)
(***************************************************************************)
C19_CostWindow ==
    CostQueried => \A k \in 1..Len(calls) : calls[k].token = "costs" =>
        /\ (/\ request.start_date = "None" /\ request.end_date = "None"
            /\ calls[k].op = "get_cost_and_usage") =>
               calls[k].arg = [start |-> "now-30d", end |-> "now"]
        /\ command.platforms = {"Azure"} =>
              /\ calls[k].op = "get_cost_analysis"
              /\ calls[k].arg = IF WindowDays >= 30 THEN "LastMonth" ELSE "LastWeek"

(***************************************************************************)
(* C20: for a command with platforms ["Azure"], resources ["costs"] and    *)
(* parameters {"timeframe": "LastWeek"} the dispatcher asks the Azure      *)
(* gateway for the costs of the timeframe LastWeek (a window that starts 7 *)
(* days before now), not for the 30-day default.                           *)
(***************************************************************************)
C20_AzureLastWeek ==
    (/\ DispatchedB
     /\ command.platforms = {"Azure"}
     /\ command.resources = <<"costs">>
     /\ command.parameters = <<ParamTimeframe>>) =>
        \E k \in 1..Len(calls) :
            /\ calls[k].op = "get_cost_analysis"
            /\ calls[k].arg = "LastWeek"

(***************************************************************************)
(* C3: the dispatcher invokes operations only on the gateways of the       *)
(* platforms listed in the command: for platforms = ["Azure"] no AWS       *)
(* gateway operation is invoked.                                           *)
(***************************************************************************)
C3_OnlyListedPlatforms ==
    (DispatchedB /\ command.platforms = {"Azure"}) =>
        \A k \in 1..Len(calls) : calls[k].platform = "Azure"

(***************************************************************************)
(* C4: for a command whose resources list is empty or whose resources and  *)
(* action match no dispatch branch, dispatch gives an UnsupportedCommand   *)
(* result (the 400-class outcome) and calls no gateway operation.          *)
(***************************************************************************)
C4_UnsupportedNoCalls ==
    (DispatchedB /\ (command.resources = <<>> \/ BranchOf(command) = "unsupported")) =>
        /\ response.outcome = "http400"
        /\ calls = <<>>

(***************************************************************************)
(* C5: an UnsupportedCommand (no dispatch branch matches) reaches the      *)
(* caller as a 400-class outcome and analyze_error is never invoked for it.*)
(***************************************************************************)
C5_UnsupportedIs400 ==
    (DispatchedB /\ BranchOf(command) = "unsupported") =>
        /\ response.outcome = "http400"
        /\ ~AnalystInvoked

(***************************************************************************)
(* C6: no short-circuit.  When the resource tokens match more than one     *)
(* dispatch branch and the request returns a response, every matching      *)
(* branch has been evaluated (its gateway operation invoked).              *)
(***************************************************************************)
C6_NoShortCircuit ==
    (DispatchedB /\ response.outcome = "returned"
                 /\ Cardinality(TokenBranches(command)) > 1) =>
        \A b \in TokenBranches(command) : \E k \in 1..Len(calls) : calls[k].token = b

(***************************************************************************)
(* C8: an empty result is a success, not an error.  When the storage       *)
(* listing finds zero buckets, the response is the envelope with data = {} *)
(* and details.status = "empty", never the plain "Success" envelope whose  *)
(* data is the provider's status record.                                   *)
(***************************************************************************)
C8_EmptyIsEmptyEnvelope ==
    (DispatchedB /\ \E k \in 1..Len(calls) :
                        calls[k].op = "list_s3_buckets" /\ calls[k].world = "none") =>
        /\ response.outcome = "returned"
        /\ response.status = "empty"
        /\ response.data = Mapping(0)
        /\ response.message # "Success"

(***************************************************************************)
(* C9: whenever an operation-level error is caught during dispatch, the    *)
(* Error Analyst is invoked and the response carries the original error    *)
(* message (with the analyst's sections when the analyst answered); the    *)
(* original error is kept also when the analyst call itself fails.         *)
(***************************************************************************)
C9_OriginalErrorKept ==
    DispatchedB => \A k \in 1..Len(calls) : calls[k].raised =>
        /\ AnalystInvoked
        /\ response.error = calls[k].msg
        /\ (~llm_calls[Len(llm_calls)].raised => response.analysis)

(***************************************************************************)
(* C10: every gateway operation, when its provider call fails, returns a   *)
(* result-or-status envelope and raises nothing to its caller.             *)
(***************************************************************************)
C10_GatewayNeverRaises ==
    \A i \in 1..Len(calls) : Failed(calls[i].world) => ~calls[i].raised

(***************************************************************************)
(* C21: for a command with resources ["ec2"] on AWS, list_ec2_instances is *)
(* called, and the filters it is called with are the conversion of         *)
(* command.parameters: a command whose action lists and whose only         *)
(* resource is "ec2" reaches list_ec2_instances when the AWS gateway is    *)
(* there, and a call made for a command with a non-empty parameter value   *)
(* is given filters (one entry per such parameter), never None.            *)
(***************************************************************************)
C21_FiltersFromParameters ==
    (DispatchedA /\ aws_client /\ "AWS" \in command.platforms) =>
        /\ (command.resources \in {<<"ec2">>, <<"EC2">>}
              /\ Contains(Lower(command.action), "list")) =>
              \E k \in 1..Len(calls) : calls[k].op = "list_ec2_instances"
        /\ \A k \in 1..Len(calls) :
              (calls[k].op = "list_ec2_instances" /\ DOMAIN command.parameters # {}) =>
                  calls[k].arg # "None"

\* the failure of the k-th gateway call shows in the response: the request
\* ended with the HTTP error, or the response holds the platform's error
\* entry, or it holds what the call returned and that is a status envelope
\* (which carries the error or the warnings) or get_vm_status's
\* {'error': ...}
FailureRecorded(k) ==
    \/ response.outcome = "http500"
    \/ ErrKey(calls[k].platform) \in DOMAIN response.results
    \/ /\ \/ calls[k].value.shape = "envelope"
          \/ calls[k].op = "get_vm_status" /\ calls[k].value = Mapping(1)
       /\ \E key \in DOMAIN response.results :
             response.results[key].value = calls[k].value

(***************************************************************************)
(* C22: no automatic retry.  Within one request a provider operation that  *)
(* has failed is not invoked again (unless the command names its resource  *)
(* token again), and its failure is recorded in the response, not          *)
(* swallowed.                                                              *)
(***************************************************************************)
C22_NoRetry ==
    DispatchedA => \A k \in 1..Len(calls) : Failed(calls[k].world) =>
        /\ Occurrences(calls[k].token, command.resources) = 1 =>
              \A j \in (k + 1)..Len(calls) : calls[j].op # calls[k].op
        /\ FailureRecorded(k)

C24_NoSharedAccumulation ==
    \A r \in TwoCalls : pc[r] = "done" =>
        /\ response[r] \in execute_cloud_command(command[r])
        /\ response[r].calls = calls[r].calls
        /\ \A k \in 1..Len(response[r].calls) :
              response[r].calls[k].platform \in command[r].platforms

\* call 2 has returned its Azure result while call 1 is between its blocks
\* with an EC2 entry of its own in its frame
C24_Witness ==
    /\ pc[1] = "azure2" /\ pc[2] = "done"
    /\ command[1].platforms = {"AWS"} /\ command[2].platforms = {"Azure"}
    /\ DOMAIN calls[1].responses = {"aws_ec2"}
    /\ DOMAIN response[2].results = {"azure_vm", "azure_vms"}

(***************************************************************************)
(* C25: for cost data with at least one row, get_cost_analysis returns a   *)
(* success result (the one that carries the optimization opportunities,    *)
(* with an entry for the top cost category exactly when that category      *)
(* costs more than half of the total).                                     *)
(***************************************************************************)
C25_CostAnalysisSucceeds ==
    \A i \in 1..Len(calls) :
        (calls[i].op = "get_cost_analysis" /\ calls[i].world = "data") =>
            /\ ~calls[i].raised
            /\ calls[i].value.shape = "envelope"
            /\ calls[i].value.status = "success"

\* where the result of list_s3_buckets holds a bucket: the (region, index)
\* places in data, and the places in the list under inaccessible_buckets
PlacesInData(name) ==
    {p \in UNION {{<<r, k>> : k \in 1..Len(response.data[r])} : r \in DOMAIN response.data} :
        response.data[p[1]][p[2]].Name = name}
PlacesInaccessible(name) ==
    {k \in 1..Len(response.inaccessible) : response.inaccessible[k].bucket = name}

(***************************************************************************)
(* C26: in the result list_s3_buckets returns, every bucket of the         *)
(* provider's bucket listing is in exactly one place: once in data, under  *)
(* its region, or once in inaccessible_buckets.  The status is "success"   *)
(* if and only if data is non-empty, and it is "empty" when every bucket   *)
(* was inaccessible.                                                       *)
(***************************************************************************)
C26_BucketPartition ==
    (pc = "done" /\ ~response.raised) =>
        /\ request.list_fault = "none" => \A i \in 1..Len(request.buckets) :
              /\ Cardinality(PlacesInData(i)) + Cardinality(PlacesInaccessible(i)) = 1
              /\ \A p \in PlacesInData(i) : p[1] = request.buckets[i].Region
        /\ response.status = "success" <=> response.data # EmptyMap
        /\ (/\ request.list_fault = "none"
            /\ \A i \in 1..Len(request.buckets) : PlacesInaccessible(i) # {}) =>
              response.status = "empty"

\* three buckets: one in each region's list of data, one inaccessible
C26_Witness ==
    /\ pc = "done" /\ ~response.raised /\ Len(request.buckets) = 3
    /\ DOMAIN response.data = Regions
    /\ Len(response.inaccessible) = 1
    /\ response.status = "success"

(***************************************************************************)
(* C27: for an AWS metrics query the existence check precedes the fetch.   *)
(* get_cloudwatch_metrics is invoked only right after list_ec2_instances,  *)
(* filtered by the same instance id, has returned a non-empty result; a    *)
(* metrics query with no instance-id parameter makes neither gateway call; *)
(* and when the instance listing comes back empty the metrics call is      *)
(* never made.                                                             *)
(***************************************************************************)
C27_ExistenceCheckFirst ==
    DispatchedB =>
        /\ \A k \in 1..Len(calls) : calls[k].op = "get_cloudwatch_metrics" =>
              /\ k > 1
              /\ calls[k - 1].op = "list_ec2_instances"
              /\ ~calls[k - 1].raised /\ ~Falsy(calls[k - 1].value)
              /\ calls[k - 1].arg = <<[Name |-> "instance-id", Values |-> <<calls[k].arg>>]>>
        /\ (BranchOf(command) = "metrics" /\ ~PHas(command.parameters, "instance-id")) =>
              calls = <<>>
        /\ (\E k \in 1..Len(calls) :
               /\ calls[k].op = "list_ec2_instances" /\ calls[k].token = "metrics"
               /\ (calls[k].raised \/ Falsy(calls[k].value))) =>
              \A j \in 1..Len(calls) : calls[j].op # "get_cloudwatch_metrics"

\* the instance was found and its metrics were fetched and returned
C27_Witness ==
    /\ DispatchedB /\ BranchOf(command) = "metrics"
    /\ Len(calls) = 2
    /\ calls[1].op = "list_ec2_instances" /\ calls[1].world = "data"
    /\ calls[2].op = "get_cloudwatch_metrics" /\ calls[2].arg = "i-1"
    /\ response.outcome = "returned" /\ response.message = "Success"

\* the cost-optimization call of the model was made for the last request,
\* and it failed
OptimizationFailed ==
    \E k \in 1..Len(llm_calls) :
        llm_calls[k].method = "get_cost_optimization" /\ llm_calls[k].raised

(***************************************************************************)
(* C28: a failure of the cost-optimization model call during a cost query  *)
(* does not fail the query.  The response is the Success envelope, its     *)
(* data is the cost data as the gateway returned it (no recommendations    *)
(* added), and the error analyst is not called.                            *)
(***************************************************************************)
C28_OptimizationFailureTolerated ==
    (DispatchedB /\ OptimizationFailed) =>
        /\ response.outcome = "returned"
        /\ response.message = "Success"
        /\ Len(calls) = 1 /\ response.data = calls[1].value
        /\ ~AnalystInvoked

\* a cost query whose cost data came back and whose optimization call failed
C28_Witness ==
    /\ CostQueried /\ OptimizationFailed
    /\ calls[1].op = "get_cost_and_usage" /\ calls[1].world = "data"
    /\ response.data = Mapping(7)

\* the provider calls of the operation in progress that did not raise
Completed(call) ==
    \E k \in 1..Len(calls) : calls[k] = ProviderCall(call, TRUE)
RaisedAt(call) ==
    \E k \in 1..Len(calls) : calls[k] = ProviderCall(call, FALSE)

(***************************************************************************)
(* C29: start_vm, stop_vm and restart_vm return status "success" only      *)
(* after the provider's long-running operation (the one the request asks   *)
(* for) has completed, and read the VM's status only after that            *)
(* completion.  If beginning or waiting on the operation raises, they      *)
(* return status "error" with vm_name and resource_group and raise         *)
(* nothing; a failure of the status read that follows leaves the status    *)
(* "success".                                                              *)
(***************************************************************************)
C29_VmOperations ==
    /\ \A k \in 1..Len(calls) : calls[k].call = "instance_view" =>
          /\ k = 3
          /\ calls[1] = ProviderCall(BeginCall(request), TRUE)
          /\ calls[2] = ProviderCall("poller.result", TRUE)
    /\ pc = "done" =>
          /\ ~response.raised
          /\ response.vm_name = request.vm_name
          /\ response.resource_group = request.resource_group
          /\ response.status = "success" =>
                Completed(BeginCall(request)) /\ Completed("poller.result")
          /\ (RaisedAt(BeginCall(request)) \/ RaisedAt("poller.result")) =>
                response.status = "error"
          /\ RaisedAt("instance_view") =>
                response.status = "success" /\ response.current_status = "error"

\* stop_vm without deallocation has returned success although the status
\* read after the power-off failed
C29_Witness ==
    /\ pc = "done" /\ request.op = "stop_vm" /\ ~request.deallocate
    /\ calls = <<ProviderCall("begin_power_off", TRUE), ProviderCall("poller.result", TRUE),
                 ProviderCall("instance_view", FALSE)>>
    /\ response.status = "success"

====
